---- MODULE Spec2Model ----
(***************************************************************************)
(* Model of src/document_comparator.py (class DocumentComparator) and of   *)
(* the "Generate Compliance Report" handler of src/streamlit_app.py.       *)
(*                                                                         *)
(* Every caller p runs one call at a time.  A call is a sequence of        *)
(* blocking remote operations (client.files.upload,                        *)
(* client.models.generate_content); each remote operation is one step      *)
(* whose outcome (success or exception) is chosen by the remote side.      *)
(* Python propagates an exception that no try block catches, so a failed   *)
(* remote operation ends the call in the same step.                        *)
(***************************************************************************)
EXTENDS Integers, Sequences, FiniteSets, TLC

\* ---------------------------------------------------------------- bounds
\* Calls (constructions, upload_pdf, compare_documents, generate_report,
\* button clicks) made in a run of the model, over all callers.
MaxCalls == 3

\* The concurrent callers: streamlit sessions, or threads using the class.
Procs == {"r1", "r2"}

\* ------------------------------------------------------------ value sets
\* An unset environment variable / api_key=None (falsy in Python).
NoKey == "<no key>"
Keys == {"K1", "K2"}

\* PDF byte buffers handed in by the caller.
Buffers == {"%PDF SOP content", "%PDF Policy content"}
\* st.file_uploader returns None until a file is chosen.
NoFile == "<no file>"

\* response.text of a successful generation: any text, the empty text, or
\* None (a response without text parts).
NoText == "<None>"
Texts == {"MOCK REPORT", "", NoText}

\* display_name labels a direct caller of upload_pdf passes.
DisplayNames == {"Other"}

\* The file object returned by client.files.upload: the reference the remote
\* store issued, with what it stores under it.
NoHandle == [id |-> <<"none", 0>>, data |-> "<none>", name |-> "<none>"]
NoClient == "<no instance>"

\* The hardcoded instruction text of compare_documents (abbreviated).
prompt == "You are a compliance auditor tasked with comparing a Policy document against a Standard Operating Procedure (SOP) document. ..."

VARIABLES
    environ,      \* os.environ["GEMINI_API_KEY"], or NoKey
    sent,         \* every generation request issued so far (history)
    pc,           \* pc[p]: where caller p stands
    client,       \* client[p]: the key self.client holds, or NoClient
    entry,        \* entry[p]: the entry point of p's current or last call
    sop_data, policy_data, sop_file, policy_file,   \* locals of the call
    result,       \* result[p]: how p's last call ended
    trace,        \* trace[p]: remote operations of p's current or last call
    calls         \* number of calls made so far

vars == <<environ, sent, pc, client, entry, sop_data, policy_data, sop_file,
          policy_file, result, trace, calls>>

\* ------------------------------------------------------- records, helpers
NoResult == [kind |-> "none", value |-> ""]
Returned(v) == [kind |-> "returned", value |-> v]
Raised(e) == [kind |-> "raised", value |-> e]

UploadEvent(data, name, ok, h) ==
    [op |-> "upload", data |-> data, name |-> name, contents |-> <<>>,
     ok |-> ok, handle |-> h, text |-> NoText]

GenerateEvent(contents, ok, text) ==
    [op |-> "generate", data |-> "<none>", name |-> "<none>",
     contents |-> contents, ok |-> ok, handle |-> NoHandle, text |-> text]

\* File objects of uploads made before the callers start: what a direct
\* caller of compare_documents can pass.
ExistingFiles ==
    {[id |-> <<"old", 1>>, data |-> "%PDF SOP content", name |-> "SOP_Document"],
     [id |-> <<"old", 2>>, data |-> "%PDF Policy content", name |-> "Policy_Document"]}

\* The file object client.files.upload returns: the remote store issues a
\* reference no other file object in use has (here: the caller and the
\* position of the upload in its call; the file objects of a finished call
\* are gone when the caller's next call starts).
NewHandle(p, prior, data, name) ==
    [id |-> <<p, Len(prior) + 1>>, data |-> data, name |-> name]

\* __init__, lines 27-28: a truthy api_key is written to the environment.
InitEnviron(key, env) == IF key # NoKey THEN key ELSE env

\* __init__, line 30: api_key or os.getenv("GEMINI_API_KEY").
ClientKey(key, env) == IF key # NoKey THEN key ELSE env

\* Mutants of Contents: the two file objects in the wrong order; a prompt
\* built from the document.
ContentsSwapped(a, b) == <<b, a, prompt>>
ContentsNamed(a, b) == <<a, b, a.data>>

\* compare_documents, line 113: contents=[sop_file, policy_file, prompt].
Contents(a, b) == <<a, b, prompt>>

\* Mutants of ResponseText: return response.text or ""; return an empty
\* report.
ResponseTextOrEmpty(text) == IF text = NoText THEN "" ELSE text
ResponseTextDropped(text) == ""

\* compare_documents, line 116: return response.text.
ResponseText(text) == text

\* The record kept of a generation request.
Request(contents) ==
    [sop |-> contents[1].data, policy |-> contents[2].data,
     prompt |-> contents[3]]

Init ==
    /\ environ \in Keys \cup {NoKey}
    /\ sent = {}
    /\ pc = [p \in Procs |-> "idle"]
    /\ client = [p \in Procs |-> NoClient]
    /\ entry = [p \in Procs |-> "none"]
    /\ sop_data = [p \in Procs |-> NoFile]
    /\ policy_data = [p \in Procs |-> NoFile]
    /\ sop_file = [p \in Procs |-> NoHandle]
    /\ policy_file = [p \in Procs |-> NoHandle]
    /\ result = [p \in Procs |-> NoResult]
    /\ trace = [p \in Procs |-> <<>>]
    /\ calls = 0

\* A caller may start a call when it runs none and calls are left.
CanCall(p) == pc[p] = "idle" /\ calls < MaxCalls

\* A call of entry point e starts: its arguments and locals.
StartCall(p, e, sd, pd, sf, pf) ==
    /\ entry' = [entry EXCEPT ![p] = e]
    /\ sop_data' = [sop_data EXCEPT ![p] = sd]
    /\ policy_data' = [policy_data EXCEPT ![p] = pd]
    /\ sop_file' = [sop_file EXCEPT ![p] = sf]
    /\ policy_file' = [policy_file EXCEPT ![p] = pf]

\* The call returns v to its caller.
Return(p, v) ==
    /\ result' = [result EXCEPT ![p] = Returned(v)]
    /\ pc' = [pc EXCEPT ![p] = "idle"]

\* The call ends with exception e: no frame of DocumentComparator catches
\* it, so it reaches the caller (the streamlit handler shows it, lines
\* 153-155).
Raise(p, e) ==
    /\ result' = [result EXCEPT ![p] = Raised(e)]
    /\ pc' = [pc EXCEPT ![p] = "idle"]

\* DocumentComparator(api_key=key), lines 20-31.  With no key at all what
\* genai.Client(api_key=None) does is the SDK's choice: it raises, or it
\* builds a client that holds no key.
Construct(p, key, sdkRaises) ==
    /\ CanCall(p)
    /\ sdkRaises => ClientKey(key, environ) = NoKey
    /\ calls' = calls + 1
    /\ environ' = InitEnviron(key, environ)
    /\ StartCall(p, "__init__", NoFile, NoFile, NoHandle, NoHandle)
    /\ trace' = [trace EXCEPT ![p] = <<>>]
    /\ IF ClientKey(key, environ') = NoKey /\ sdkRaises
       THEN /\ result' = [result EXCEPT ![p] = Raised("ConfigurationError")]
            /\ UNCHANGED client
       ELSE /\ client' = [client EXCEPT ![p] = ClientKey(key, environ')]
            /\ result' = [result EXCEPT ![p] = Returned("<instance>")]
    /\ UNCHANGED <<sent, pc>>

\* upload_pdf, lines 44-51: one client.files.upload of the buffer under the
\* label, after the remote operations `prior` of the call.  A client
\* without a key is refused by the remote side.
UploadPdf(p, prior, data, name, ok) ==
    /\ ok => client[p] # NoKey
    /\ trace' = [trace EXCEPT ![p] = Append(prior,
                    UploadEvent(data, name, ok,
                        IF ok THEN NewHandle(p, prior, data, name)
                              ELSE NoHandle))]

\* Mutant of CompareDocuments: the exception of generate_content is caught
\* and an empty report returned.
CompareDocumentsSwallow(p, prior, a, b, ok, text) ==
    /\ ok => client[p] # NoKey
    /\ trace' = [trace EXCEPT ![p] = Append(prior,
                    GenerateEvent(Contents(a, b), ok,
                                  IF ok THEN text ELSE NoText))]
    /\ sent' = sent \cup {Request(Contents(a, b))}
    /\ IF ok THEN Return(p, ResponseText(text))
             ELSE Return(p, "")

\* compare_documents, lines 65-116: one client.models.generate_content with
\* the two file objects and the prompt; the text of the response is returned.
CompareDocuments(p, prior, a, b, ok, text) ==
    /\ ok => client[p] # NoKey
    /\ trace' = [trace EXCEPT ![p] = Append(prior,
                    GenerateEvent(Contents(a, b), ok,
                                  IF ok THEN text ELSE NoText))]
    /\ sent' = sent \cup {Request(Contents(a, b))}
    /\ IF ok THEN Return(p, ResponseText(text))
             ELSE Raise(p, "GenerationError")

\* generate_report(sop_data, policy_data) is called, line 118.
GenerateReport(p, sd, pd) ==
    /\ CanCall(p)
    /\ client[p] # NoClient
    /\ StartCall(p, "generate_report", sd, pd, NoHandle, NoHandle)
    /\ trace' = [trace EXCEPT ![p] = <<>>]
    /\ result' = [result EXCEPT ![p] = NoResult]
    /\ pc' = [pc EXCEPT ![p] = "upload_sop"]
    /\ calls' = calls + 1
    /\ UNCHANGED <<environ, sent, client>>

\* Mutant of UploadSop: the exception of the first upload is caught and the
\* call goes on without a file object.
UploadSopSwallow(p, ok) ==
    /\ pc[p] = "upload_sop"
    /\ UploadPdf(p, trace[p], sop_data[p], "SOP_Document", ok)
    /\ sop_file' = [sop_file EXCEPT ![p] =
           IF ok THEN NewHandle(p, trace[p], sop_data[p], "SOP_Document")
                 ELSE NoHandle]
    /\ pc' = [pc EXCEPT ![p] = "upload_policy"]
    /\ UNCHANGED <<environ, sent, client, entry, sop_data, policy_data,
                   policy_file, result, calls>>

\* generate_report, line 130: sop_file = self.upload_pdf(sop_data, ...).
UploadSop(p, ok) ==
    /\ pc[p] = "upload_sop"
    /\ UploadPdf(p, trace[p], sop_data[p], "SOP_Document", ok)
    /\ IF ok
       THEN /\ sop_file' = [sop_file EXCEPT ![p] =
                   NewHandle(p, trace[p], sop_data[p], "SOP_Document")]
            /\ pc' = [pc EXCEPT ![p] = "upload_policy"]
            /\ UNCHANGED result
       ELSE /\ Raise(p, "UploadError")
            /\ UNCHANGED sop_file
    /\ UNCHANGED <<environ, sent, client, entry, sop_data, policy_data,
                   policy_file, calls>>

\* Mutants of UploadPolicy: the exception of the second upload is caught and
\* the call goes on without a file object; a failed upload is tried again.
UploadPolicySwallow(p, ok) ==
    /\ pc[p] = "upload_policy"
    /\ UploadPdf(p, trace[p], policy_data[p], "Policy_Document", ok)
    /\ policy_file' = [policy_file EXCEPT ![p] =
           IF ok THEN NewHandle(p, trace[p], policy_data[p], "Policy_Document")
                 ELSE NoHandle]
    /\ pc' = [pc EXCEPT ![p] = "compare"]
    /\ UNCHANGED <<environ, sent, client, entry, sop_data, policy_data,
                   sop_file, result, calls>>

UploadPolicyRetry(p, ok) ==
    /\ pc[p] = "upload_policy"
    /\ UploadPdf(p, trace[p], policy_data[p], "Policy_Document", ok)
    /\ IF ok
       THEN /\ policy_file' = [policy_file EXCEPT ![p] =
                   NewHandle(p, trace[p], policy_data[p], "Policy_Document")]
            /\ pc' = [pc EXCEPT ![p] = "compare"]
       ELSE UNCHANGED <<policy_file, pc>>
    /\ UNCHANGED <<environ, sent, client, entry, sop_data, policy_data,
                   sop_file, result, calls>>

\* generate_report, line 131: policy_file = self.upload_pdf(policy_data, ...).
UploadPolicy(p, ok) ==
    /\ pc[p] = "upload_policy"
    /\ UploadPdf(p, trace[p], policy_data[p], "Policy_Document", ok)
    /\ IF ok
       THEN /\ policy_file' = [policy_file EXCEPT ![p] =
                   NewHandle(p, trace[p], policy_data[p], "Policy_Document")]
            /\ pc' = [pc EXCEPT ![p] = "compare"]
            /\ UNCHANGED result
       ELSE /\ Raise(p, "UploadError")
            /\ UNCHANGED policy_file
    /\ UNCHANGED <<environ, sent, client, entry, sop_data, policy_data,
                   sop_file, calls>>

\* generate_report, lines 134-136: report = self.compare_documents(sop_file,
\* policy_file); return report.
Compare(p, ok, text) ==
    /\ pc[p] = "compare"
    /\ CompareDocuments(p, trace[p], sop_file[p], policy_file[p], ok, text)
    /\ UNCHANGED <<environ, client, entry, sop_data, policy_data, sop_file,
                   policy_file, calls>>

\* upload_pdf(file_data, display_name) called directly, lines 33-51.
UploadPdfCall(p, data, name, ok) ==
    /\ CanCall(p)
    /\ client[p] # NoClient
    /\ StartCall(p, "upload_pdf", data, NoFile, NoHandle, NoHandle)
    /\ UploadPdf(p, <<>>, data, name, ok)
    /\ IF ok THEN Return(p, "<file>") ELSE Raise(p, "UploadError")
    /\ calls' = calls + 1
    /\ UNCHANGED <<environ, sent, client>>

\* compare_documents(sop_file, policy_file) called directly, lines 53-116.
CompareDocumentsCall(p, a, b, ok, text) ==
    /\ CanCall(p)
    /\ client[p] # NoClient
    /\ StartCall(p, "compare_documents", NoFile, NoFile, a, b)
    /\ CompareDocuments(p, <<>>, a, b, ok, text)
    /\ calls' = calls + 1
    /\ UNCHANGED <<environ, client>>

\* streamlit_app.py, run on a click of "Generate Compliance Report" with the
\* two uploaded files (NoFile: none chosen): line 60 reads the key from the
\* environment, lines 117-126 validate, line 131 constructs a comparator with
\* that key and line 138 calls generate_report.
ButtonHandler(p, sop, policy) ==
    /\ CanCall(p)
    /\ calls' = calls + 1
    /\ trace' = [trace EXCEPT ![p] = <<>>]
    /\ LET api_key == environ IN
       IF api_key = NoKey \/ sop = NoFile \/ policy = NoFile
       THEN /\ StartCall(p, "button", sop, policy, NoHandle, NoHandle)
            /\ result' = [result EXCEPT ![p] = Raised("st.error")]
            /\ UNCHANGED <<environ, client, pc>>
       ELSE /\ environ' = InitEnviron(api_key, environ)
            /\ client' = [client EXCEPT ![p] = ClientKey(api_key, environ')]
            /\ StartCall(p, "generate_report", sop, policy, NoHandle, NoHandle)
            /\ result' = [result EXCEPT ![p] = NoResult]
            /\ pc' = [pc EXCEPT ![p] = "upload_sop"]
    /\ UNCHANGED sent

Next ==
    \/ \E p \in Procs, key \in Keys \cup {NoKey}, sdkRaises \in BOOLEAN :
           Construct(p, key, sdkRaises)
    \/ \E p \in Procs, sd \in Buffers, pd \in Buffers : GenerateReport(p, sd, pd)
    \/ \E p \in Procs, ok \in BOOLEAN : UploadSop(p, ok)
    \/ \E p \in Procs, ok \in BOOLEAN : UploadPolicy(p, ok)
    \/ \E p \in Procs, ok \in BOOLEAN, text \in Texts : Compare(p, ok, text)
    \/ \E p \in Procs, data \in Buffers, name \in DisplayNames, ok \in BOOLEAN :
           UploadPdfCall(p, data, name, ok)
    \/ \E p \in Procs, a \in ExistingFiles, b \in ExistingFiles,
          ok \in BOOLEAN, text \in Texts :
           CompareDocumentsCall(p, a, b, ok, text)
    \/ \E p \in Procs, sop \in Buffers \cup {NoFile},
          policy \in Buffers \cup {NoFile} :
           ButtonHandler(p, sop, policy)

Spec == Init /\ [][Next]_vars

\* ------------------------------------------------------------------ claims
\* p runs, or has last run, generate_report (called directly or by the
\* streamlit handler).
InReport(p) == entry[p] = "generate_report"

Events(p) == DOMAIN trace[p]
Uploads(p) == {i \in Events(p) : trace[p][i].op = "upload"}
Generates(p) == {i \in Events(p) : trace[p][i].op = "generate"}
Failed(p) == {i \in Events(p) : ~trace[p][i].ok}
OkUploads(p) == {i \in Uploads(p) : trace[p][i].ok}
HandlesOf(p) == {trace[p][i].handle : i \in OkUploads(p)}
Empty(v) == v \in {"", NoText}

\* C1: in generate_report, once the upload of the SOP document has failed,
\* no upload of the Policy document and no generation follows in that call.
C1_ShortCircuit ==
    \A p \in Procs : InReport(p) =>
        \A i \in Uploads(p) :
            (trace[p][i].name = "SOP_Document" /\ ~trace[p][i].ok) =>
                /\ \A j \in Events(p) : j <= i
                /\ pc[p] = "idle"

C1_Witness ==
    \E p \in Procs :
        /\ InReport(p)
        /\ Len(trace[p]) = 1
        /\ trace[p][1].op = "upload" /\ trace[p][1].name = "SOP_Document"
        /\ ~trace[p][1].ok
        /\ result[p] = Raised("UploadError")

\* C2: a report is returned only after both uploads succeeded, each giving
\* one file object (two in all, one per buffer); when an upload has failed
\* the call has ended in failure, with no report and no generation issued.
C2_ReportNeedsBothHandles ==
    \A p \in Procs : InReport(p) =>
        /\ result[p].kind = "returned" =>
              /\ Cardinality(OkUploads(p)) = 2
              /\ Cardinality(HandlesOf(p)) = 2
              /\ NoHandle \notin HandlesOf(p)
              /\ \E i, j \in OkUploads(p) :
                    /\ i < j
                    /\ trace[p][i].data = sop_data[p]
                    /\ trace[p][j].data = policy_data[p]
                    /\ \A g \in Generates(p) : j < g
        /\ (Uploads(p) \cap Failed(p) # {}) =>
              /\ pc[p] = "idle"
              /\ result[p].kind = "raised"
              /\ Generates(p) = {}

C2_Witness ==
    \E p \in Procs :
        /\ InReport(p)
        /\ result[p].kind = "returned"
        /\ Cardinality(HandlesOf(p)) = 2

\* C3: when the credential is absent (no api_key argument, no GEMINI_API_KEY
\* value) every entry point fails with ConfigurationError before any remote
\* operation is attempted.  client[p] = NoKey: p's comparator was built with
\* no credential.
NoCredential(p) ==
    \/ client[p] = NoKey
    \/ entry[p] = "__init__" /\ result[p].kind = "raised"

C3_ConfigurationErrorFirst ==
    \A p \in Procs : NoCredential(p) =>
        /\ trace[p] = <<>>
        /\ pc[p] = "idle"
        /\ result[p] = Raised("ConfigurationError")

\* C4: when both uploads succeeded and the generation fails, generate_report
\* ends with GenerationError reaching its caller, and returns no text.
C4_GenerationErrorPropagates ==
    \A p \in Procs : InReport(p) =>
        \A g \in Generates(p) : ~trace[p][g].ok =>
            /\ Cardinality(OkUploads(p)) = 2
            /\ pc[p] = "idle"
            /\ result[p] = Raised("GenerationError")

C4_Witness ==
    \E p \in Procs :
        /\ InReport(p)
        /\ Cardinality(OkUploads(p)) = 2
        /\ \E g \in Generates(p) : ~trace[p][g].ok
        /\ result[p] = Raised("GenerationError")

\* C5: when both uploads and the generation succeed, generate_report returns
\* exactly the text of the generation response, whatever that text is.
C5_ReturnsResponseVerbatim ==
    \A p \in Procs : (InReport(p) /\ result[p].kind = "returned") =>
        /\ Generates(p) # {}
        /\ \A g \in Generates(p) :
              trace[p][g].ok /\ result[p].value = trace[p][g].text

C5_Witness ==
    \E p \in Procs :
        /\ InReport(p)
        /\ result[p] = Returned("MOCK REPORT")
        /\ trace[p][3].text = "MOCK REPORT"

C7_NoRetry ==
    \A p \in Procs : InReport(p) =>
        /\ Cardinality(Uploads(p)) <= 2
        /\ \A i, j \in Uploads(p) : trace[p][i].name = trace[p][j].name => i = j
        /\ Cardinality(Generates(p)) <= 1
        /\ \A i \in Failed(p) :
              /\ i = Len(trace[p])
              /\ pc[p] = "idle"
              /\ result[p] = Raised(IF trace[p][i].op = "upload"
                                    THEN "UploadError" ELSE "GenerationError")

C7_Witness ==
    \E p \in Procs :
        /\ InReport(p)
        /\ Len(trace[p]) = 2
        /\ Failed(p) = {2}
        /\ result[p] = Raised("UploadError")

\* C8: the prompt of every generation request is the same text, whatever
\* the documents, the file objects and the comparator.
C8_SamePrompt ==
    \A r1, r2 \in sent : r1.prompt = r2.prompt

C8_Witness ==
    \E r1, r2 \in sent :
        /\ r1.sop # r2.sop
        /\ r1.policy # r2.policy
        /\ r1.prompt = r2.prompt

\* C9: generate_report uploads the first buffer as "SOP_Document", then the
\* second as "Policy_Document", then issues one generation whose contents
\* are [a, b, prompt], a the file object of the first upload and b that of
\* the second.
C9_OrderedPayload ==
    \A p \in Procs : InReport(p) =>
        /\ Len(trace[p]) <= 3
        /\ Len(trace[p]) >= 1 =>
              /\ trace[p][1].op = "upload"
              /\ trace[p][1].data = sop_data[p]
              /\ trace[p][1].name = "SOP_Document"
        /\ Len(trace[p]) >= 2 =>
              /\ trace[p][1].ok
              /\ trace[p][2].op = "upload"
              /\ trace[p][2].data = policy_data[p]
              /\ trace[p][2].name = "Policy_Document"
        /\ Len(trace[p]) >= 3 =>
              /\ trace[p][2].ok
              /\ trace[p][1].handle # trace[p][2].handle
              /\ trace[p][3].op = "generate"
              /\ trace[p][3].contents =
                    <<trace[p][1].handle, trace[p][2].handle, prompt>>

C9_Witness ==
    \E p \in Procs :
        /\ InReport(p)
        /\ result[p].kind = "returned"
        /\ sop_data[p] # policy_data[p]
        /\ Len(trace[p]) = 3
        /\ trace[p][3].contents[1].data = sop_data[p]
        /\ trace[p][3].contents[2].data = policy_data[p]

\* C10: once GEMINI_API_KEY is set, no operation changes it.
C10_CredentialReadOnly ==
    [][environ # NoKey => environ' = environ]_vars
====
